---- MODULE Spec2Model ----
(***************************************************************************)
(* A model of Fch (src/src/Fch.ts): a fetch client that extends URL with   *)
(* retries, a per-attempt timeout, request/response interceptors, a        *)
(* switchable logger and body helpers.                                     *)
(*                                                                         *)
(* The instance's fields are the variables.  A synchronous method is one   *)
(* action, enabled at any time, also while requests are in flight.         *)
(* makeRequest is an async function: each call is an activation of its     *)
(* own, cut at its await points (the pending fetch, each awaited response  *)
(* interceptor, the retry delay), and any number of activations run        *)
(* interleaved on the one instance.  The platform's fetch, timers and      *)
(* AbortController are the environment: a fetch settles by a               *)
(* nondeterministic choice, constrained only by the Fetch standard (a      *)
(* request that new Request refuses, for its mode, cache mode, method,     *)
(* headers or body, rejects with TypeError; an aborted signal rejects with *)
(* AbortError).  The modes and cache modes given are members of            *)
(* RequestMode and RequestCache.                                           *)
(*                                                                         *)
(* An optional value (a key that may be missing from an options object, a  *)
(* field that may be null) is a set with at most one element.  Strings are *)
(* ASCII; conversions work on them character by character.                 *)
(***************************************************************************)
EXTENDS Integers, Sequences, FiniteSets, TLC

\* ------------------------------------------------------------------ bounds
MaxRetries == 2        \* largest retry count given to setRetries or makeRequest
MaxInterceptors == 2   \* interceptors registered per list
MaxCalls == 2          \* makeRequest activations per instance
MaxOps == 2            \* synchronous calls made before the last one that registers no interceptor
MaxEntries == 2        \* entries appended to one FormData
MaxFd == 2             \* FormData objects allocated

\* --------------------------------------------------- defaults of the code
DefaultRetries == 1
DefaultTimeout == 5000
DefaultRetryTimeout == 0
SomeRetries == 3         \* a retry count a caller provides to the constructor
SomeTimeout == 10000     \* a timeout a caller provides to the constructor
SomeRetryTimeout == 1000 \* a retry delay a caller provides
OtherTimeout == 3000     \* a timeout a caller sets with setTimeout

\* ------------------------------------------------------- optional values
None == {}
Some(x) == {x}
Get(o) == CHOOSE x \in o : TRUE
OrElse(o, d) == IF o = {} THEN d ELSE Get(o)
\* a || d for a string that may be missing: the empty string is falsy too.
OrIfFalsy(o, d) == IF o = {} \/ Get(o) = "" THEN d ELSE Get(o)

\* ------------------------------------------------------------ strings
\* The printable ASCII characters, codes 32..95 and 97..126.
AsciiLow == " !\"#$%&'()*+,-./0123456789:;<=>?@ABCDEFGHIJKLMNOPQRSTUVWXYZ[\\]^_"
AsciiHigh == "abcdefghijklmnopqrstuvwxyz{|}~"
Base64Alphabet == "ABCDEFGHIJKLMNOPQRSTUVWXYZabcdefghijklmnopqrstuvwxyz0123456789+/"
HexDigits == "0123456789ABCDEF"

CharAt(s, i) == SubSeq(s, i, i)
CharsOf(s) == {CharAt(s, i) : i \in 1..Len(s)}
IndexOf(s, c) == CHOOSE i \in 1..Len(s) : CharAt(s, i) = c
\* String.prototype.charCodeAt(0) and String.fromCharCode, as tables; the
\* control characters are tab, line feed, form feed and carriage return.
CharCodes == [c \in CharsOf(AsciiLow) \cup CharsOf(AsciiHigh) \cup CharsOf("\t\n\f\r") |-> IF c \in CharsOf(AsciiLow) THEN 31 + IndexOf(AsciiLow, c) ELSE IF c \in CharsOf(AsciiHigh) THEN 96 + IndexOf(AsciiHigh, c) ELSE CASE c = "\t" -> 9 [] c = "\n" -> 10 [] c = "\f" -> 12 [] c = "\r" -> 13]
FromCharCode(k) == IF k <= 95 THEN CharAt(AsciiLow, k - 31) ELSE CharAt(AsciiHigh, k - 96)
LowerCaseLetters == CharsOf("abcdefghijklmnopqrstuvwxyz")
UpperCaseLetters == CharsOf("ABCDEFGHIJKLMNOPQRSTUVWXYZ")
Digits == CharsOf("0123456789")

\* String.prototype.toUpperCase
UpperChar(c) == IF c \in LowerCaseLetters THEN FromCharCode(CharCodes[c] - 32) ELSE c
RECURSIVE ToUpperCase(_)
ToUpperCase(s) ==
    IF s = "" THEN "" ELSE UpperChar(CharAt(s, 1)) \o ToUpperCase(SubSeq(s, 2, Len(s)))

\* The byte-lowercasing of a header name.
LowerChar(c) == IF c \in UpperCaseLetters THEN FromCharCode(CharCodes[c] + 32) ELSE c
RECURSIVE ToLowerCase(_)
ToLowerCase(s) ==
    IF s = "" THEN "" ELSE LowerChar(CharAt(s, 1)) \o ToLowerCase(SubSeq(s, 2, Len(s)))

\* The normalisation of a header value: leading and trailing HTTP whitespace removed.
IsHttpWhitespace(c) == c = " " \/ c = "\t" \/ c = "\n" \/ c = "\r"
RECURSIVE TrimLeft(_)
TrimLeft(s) ==
    IF s # "" /\ IsHttpWhitespace(CharAt(s, 1)) THEN TrimLeft(SubSeq(s, 2, Len(s))) ELSE s
RECURSIVE TrimRight(_)
TrimRight(s) ==
    IF s # "" /\ IsHttpWhitespace(CharAt(s, Len(s))) THEN TrimRight(SubSeq(s, 1, Len(s) - 1)) ELSE s
NormalizeValue(s) == TrimRight(TrimLeft(s))

\* An HTTP token (a header name, a method): one or more token characters.
IsToken(s) ==
    /\ s # ""
    /\ CharsOf(s) \subseteq LowerCaseLetters \cup UpperCaseLetters \cup Digits \cup CharsOf("!#$%&'*+-.^_|~")
\* A header value, once normalised: no line feed or carriage return inside.
IsHeaderValue(s) == CharsOf(s) \cap CharsOf("\n\r") = {}

\* btoa: base64 of the string's bytes.
Base64Char(k) == CharAt(Base64Alphabet, k + 1)
RECURSIVE Btoa(_)
Btoa(s) ==
    LET len == Len(s)
        b(i) == CharCodes[CharAt(s, i)]
    IN  IF len = 0 THEN ""
        ELSE IF len = 1
        THEN Base64Char(b(1) \div 4) \o Base64Char((b(1) % 4) * 16) \o "=="
        ELSE IF len = 2
        THEN Base64Char(b(1) \div 4) \o Base64Char((b(1) % 4) * 16 + b(2) \div 16)
                \o Base64Char((b(2) % 16) * 4) \o "="
        ELSE Base64Char(b(1) \div 4) \o Base64Char((b(1) % 4) * 16 + b(2) \div 16)
                \o Base64Char((b(2) % 16) * 4 + b(3) \div 64) \o Base64Char(b(3) % 64)
                \o Btoa(SubSeq(s, 4, len))

\* A JavaScript value a caller passes as data: a string, a number, a boolean, or
\* an array of those.
Str(s) == [t |-> "string", s |-> s, n |-> 0, b |-> FALSE, items |-> <<>>]
Num(k) == [t |-> "number", s |-> "", n |-> k, b |-> FALSE, items |-> <<>>]
Bool(b) == [t |-> "boolean", s |-> "", n |-> 0, b |-> b, items |-> <<>>]
Arr(items) == [t |-> "array", s |-> "", n |-> 0, b |-> FALSE, items |-> items]

\* String(v) of a string, a number or a boolean.
StringOf(v) ==
    CASE v.t = "string" -> v.s
      [] v.t = "number" -> ToString(v.n)
      [] v.t = "boolean" -> IF v.b THEN "true" ELSE "false"

\* The application/x-www-form-urlencoded byte serialiser of URLSearchParams.
FormEncodeChar(c) ==
    IF c = " " THEN "+"
    ELSE IF c \in LowerCaseLetters \/ c \in UpperCaseLetters \/ c \in Digits \/ c = "*" \/ c = "-" \/ c = "." \/ c = "_" THEN c
    ELSE "%" \o CharAt(HexDigits, (CharCodes[c] \div 16) + 1) \o CharAt(HexDigits, (CharCodes[c] % 16) + 1)
RECURSIVE FormEncode(_)
FormEncode(s) ==
    IF s = "" THEN "" ELSE FormEncodeChar(CharAt(s, 1)) \o FormEncode(SubSeq(s, 2, Len(s)))

\* URLSearchParams.prototype.toString of a list of name/value pairs.
RECURSIVE SearchParamsToString(_)
SearchParamsToString(pairs) ==
    IF pairs = <<>> THEN ""
    ELSE FormEncode(pairs[1][1]) \o "=" \o FormEncode(pairs[1][2])
            \o (IF Len(pairs) > 1 THEN "&" ELSE "") \o SearchParamsToString(Tail(pairs))

\* URLSearchParams.prototype.set: the first pair of that name takes the value and
\* the others of that name are removed; appended when there is none.
RECURSIVE SearchParamsSet(_, _, _)
SearchParamsSet(pairs, name, value) ==
    IF pairs = <<>> THEN <<<<name, value>>>>
    ELSE IF pairs[1][1] = name
    THEN <<<<name, value>>>> \o SelectSeq(Tail(pairs), LAMBDA p : p[1] # name)
    ELSE <<pairs[1]>> \o SearchParamsSet(Tail(pairs), name, value)

\* for (const [key, value] of Object.entries(params)) this.searchParams.set(key, value)
RECURSIVE SearchParamsSetAll(_, _)
SearchParamsSetAll(pairs, params) ==
    IF params = <<>> THEN pairs
    ELSE SearchParamsSetAll(SearchParamsSet(pairs, params[1][1], params[1][2]), Tail(params))

\* for (const v of value) urlSearchParams.append(key, String(v))
RECURSIVE AppendEach(_, _, _)
AppendEach(pairs, key, items) ==
    IF items = <<>> THEN pairs
    ELSE AppendEach(Append(pairs, <<key, StringOf(Head(items))>>), key, Tail(items))

\* The loop of setFormUrlEncodedBody and appendSearchParams over Object.entries(data):
\* an array appends each of its items, any other value is appended itself.
RECURSIVE FormUrlEncodedPairs(_, _)
FormUrlEncodedPairs(pairs, data) ==
    IF data = <<>> THEN pairs
    ELSE LET key == data[1][1]
             value == data[1][2]
         IN FormUrlEncodedPairs(
                IF value.t = "array" THEN AppendEach(pairs, key, value.items)
                ELSE Append(pairs, <<key, StringOf(value)>>),
                Tail(data))

\* JSON.stringify: a string in quotes with its quotes, backslashes and control
\* characters escaped; an object of strings, numbers, booleans and arrays of them.
JsonEscapeChar(c) ==
    CASE c = "\"" -> "\\\""
      [] c = "\\" -> "\\\\"
      [] c = "\n" -> "\\n"
      [] c = "\r" -> "\\r"
      [] c = "\t" -> "\\t"
      [] c = "\f" -> "\\f"
      [] OTHER -> c
RECURSIVE JsonEscape(_)
JsonEscape(s) ==
    IF s = "" THEN "" ELSE JsonEscapeChar(CharAt(s, 1)) \o JsonEscape(SubSeq(s, 2, Len(s)))
JsonQuote(s) == "\"" \o JsonEscape(s) \o "\""
JsonScalar(v) == IF v.t = "string" THEN JsonQuote(v.s) ELSE StringOf(v)
RECURSIVE JsonItems(_)
JsonItems(items) ==
    IF items = <<>> THEN ""
    ELSE JsonScalar(Head(items)) \o (IF Len(items) > 1 THEN "," ELSE "") \o JsonItems(Tail(items))
JsonValue(v) == IF v.t = "array" THEN "[" \o JsonItems(v.items) \o "]" ELSE JsonScalar(v)
RECURSIVE JsonMembers(_)
JsonMembers(obj) ==
    IF obj = <<>> THEN ""
    ELSE JsonQuote(obj[1][1]) \o ":" \o JsonValue(obj[1][2])
            \o (IF Len(obj) > 1 THEN "," ELSE "") \o JsonMembers(Tail(obj))
JsonStringify(obj) == "{" \o JsonMembers(obj) \o "}"

\* ------------------------------------------------------------ values
\* A request body: null, a string, or a reference to a FormData object.
NullBody == [t |-> "null", s |-> "", id |-> 0]
StrBody(s) == [t |-> "str", s |-> s, id |-> 0]
FdBody(id) == [t |-> "fd", s |-> "", id |-> id]

\* Errors carry a name and a message, like Error objects.
AbortError == [name |-> "AbortError", message |-> "This operation was aborted"]
NetworkError == [name |-> "TypeError", message |-> "fetch failed"]
InterceptorError == [name |-> "Error", message |-> "Request failed"]
ImmutableError == [name |-> "TypeError", message |-> "immutable"]
NotAFunction(level) == [name |-> "TypeError", message |-> "this.logger." \o level \o " is not a function"]
NoSuchMethod(object, key) == [name |-> "TypeError", message |-> object \o "." \o key \o " is not a function"]
InvalidArgument(prefix, value, type) == [name |-> "TypeError", message |-> prefix \o ": \"" \o value \o "\" is an invalid " \o type \o "."]
NoError == [name |-> "", message |-> ""]
\* The value undefined, thrown or rejected with: it has no properties, and reading
\* one off it throws.
Undefined == [name |-> "undefined", message |-> ""]

\* A Headers object: a function from lower-cased names to values.  Its methods
\* check the name, then the normalised value, and throw a TypeError on a bad one.
EmptyHeaders == [k \in {} |-> ""]
HeaderError(prefix, name, value) ==
    IF ~IsToken(name) THEN InvalidArgument(prefix, name, "header name")
    ELSE IF ~IsHeaderValue(NormalizeValue(value))
    THEN InvalidArgument(prefix, NormalizeValue(value), "header value")
    ELSE NoError
\* Headers.prototype.get: the value (null when there is none), or what it throws.
HeadersGet(hs, name) ==
    [value |-> IF ToLowerCase(name) \in DOMAIN hs THEN Some(hs[ToLowerCase(name)]) ELSE None,
     thrown |-> HeaderError("Headers.get", name, "")]
\* Headers.prototype.set, append and delete: the headers after the call (as they
\* were when it throws), and what it throws.
HeadersSet(hs, name, value) ==
    LET err == HeaderError("Headers.set", name, value) IN
    [hs |-> IF err # NoError THEN hs
            ELSE [k \in DOMAIN hs \cup {ToLowerCase(name)} |->
                    IF k = ToLowerCase(name) THEN NormalizeValue(value) ELSE hs[k]],
     thrown |-> err]
HeadersAppend(hs, name, value) ==
    LET err == HeaderError("Headers.append", name, value) IN
    [hs |-> IF err # NoError THEN hs
            ELSE [k \in DOMAIN hs \cup {ToLowerCase(name)} |->
                    IF k # ToLowerCase(name) THEN hs[k]
                    ELSE IF k \in DOMAIN hs THEN hs[k] \o ", " \o NormalizeValue(value)
                    ELSE NormalizeValue(value)],
     thrown |-> err]
HeadersDelete(hs, name) ==
    LET err == HeaderError("Headers.delete", name, "") IN
    [hs |-> IF err # NoError THEN hs ELSE [k \in DOMAIN hs \ {ToLowerCase(name)} |-> hs[k]],
     thrown |-> err]

\* A headers init object: its name/value entries in order, up to the first that throws.
RECURSIVE HeadersFill(_, _)
HeadersFill(hs, entries) ==
    IF entries = <<>> THEN [hs |-> hs, thrown |-> NoError]
    ELSE LET out == HeadersAppend(hs, entries[1][1], entries[1][2]) IN
         IF out.thrown # NoError THEN out ELSE HeadersFill(out.hs, Tail(entries))

\* new Headers(init)
NewHeaders(init) ==
    IF init = None THEN [hs |-> EmptyHeaders, thrown |-> NoError]
    ELSE HeadersFill(EmptyHeaders, Get(init))

\* A response: its status, the guard of its headers ("immutable" on a response
\* that came from the network, "response" on one a mock built with new
\* Response), and the marks interceptors left on its headers, in order.
Statuses == {200, 500}
Response(status, guard) == [status |-> status, guard |-> guard, marks |-> <<>>]
NoResponse == [status |-> 0, guard |-> "none", marks |-> <<>>]
IsOk(res) == res.status >= 200 /\ res.status <= 299

\* ------------------------------------------------------------ loggers
\* A logger object: which object it is and which of its members are functions.
LoggerObject(id, info, warn, error) == [id |-> id, info |-> info, warn |-> warn, error |-> error]
\* The loggers a caller may hand over: a full one, one with only info, an empty object.
LoggersNamed(id) ==
    {LoggerObject(id, TRUE, TRUE, TRUE), LoggerObject(id, TRUE, FALSE, FALSE),
     LoggerObject(id, FALSE, FALSE, FALSE)}
Levels == {"info", "warn", "error"}

\* createDefaultLogger: console.log/warn/error bound with a first argument.
createDefaultLogger == LoggerObject("console", TRUE, TRUE, TRUE)
ConsoleMethod(level) ==
    CASE level = "info" -> "console.log"
      [] level = "warn" -> "console.warn"
      [] level = "error" -> "console.error"
BoundArgument(level) ==
    CASE level = "info" -> "[INFO]"
      [] level = "warn" -> "[WARN]"
      [] level = "error" -> "[ERROR]"

\* adaptLogger: the given logger when info, warn and error are all functions,
\* else the default console logger.
adaptLogger(loggerOpt) ==
    IF loggerOpt # None /\ Get(loggerOpt).info /\ Get(loggerOpt).warn /\ Get(loggerOpt).error
    THEN Get(loggerOpt)
    ELSE createDefaultLogger

\* this.logger[level](msg) for a member that is a function: the call that reaches
\* the underlying logger, with the value isLoggingEnabled had when it was made.
LoggerCall(lg, level, msg, enabled) ==
    IF lg.id = "console"
    THEN [fn |-> ConsoleMethod(level), args |-> <<BoundArgument(level), msg>>, enabled |-> enabled]
    ELSE [fn |-> lg.id \o "." \o level, args |-> <<msg>>, enabled |-> enabled]

\* getLogger()[level](msg): forwarded only while logging is enabled; a member
\* that is not a function throws when it is called.
GetLoggerCall(lg, level, msg, enabled) ==
    IF ~enabled THEN [calls |-> <<>>, thrown |-> NoError]
    ELSE IF lg[level] THEN [calls |-> <<LoggerCall(lg, level, msg, enabled)>>, thrown |-> NoError]
    ELSE [calls |-> <<>>, thrown |-> NotAFunction(level)]

\* ------------------------------------------------------------ state
VARIABLES
    opts,                 \* the options the constructor was given
    instance,             \* whether the constructor returned an instance
    formData,             \* Fch.formData: null or a FormData object
    fdStore,              \* the entries of each FormData object allocated
    nextFd,               \* the next FormData object to allocate
    headers,              \* Fch.headers
    searchParams,         \* URL.searchParams: the name/value pairs of the query
    fetchOptions,         \* Fch.fetchOptions
    controller,           \* Fch.controller
    aborted,              \* the AbortControllers that were aborted
    retries,              \* Fch.retries
    retryTimeout,         \* Fch.retryTimeout
    timeout,              \* Fch.timeout
    logger,               \* Fch.logger
    isLoggingEnabled,     \* Fch.isLoggingEnabled
    requestInterceptors,  \* Fch.requestInterceptors
    responseInterceptors, \* Fch.responseInterceptors
    requests,             \* the makeRequest activations, in the order they were called
    timers,               \* the armed timeout timers: the activation and attempt that armed each, and its delay
    sink,                 \* the calls the underlying logger received
    thrown,               \* what the last synchronous call threw to its caller
    cloned,               \* the instance the last clone() returned
    ops                   \* synchronous method calls so far, in order

cfgVars == <<formData, fdStore, nextFd, headers, searchParams, fetchOptions, retries,
             retryTimeout, timeout, logger, isLoggingEnabled, requestInterceptors,
             responseInterceptors>>
vars == <<opts, instance, cfgVars, controller, aborted, requests, timers, sink, thrown, cloned, ops>>

\* The fields a method may assign, as they are now.
This ==
    [formData |-> formData, fdStore |-> fdStore, nextFd |-> nextFd, headers |-> headers,
     searchParams |-> searchParams, fetchOptions |-> fetchOptions, retries |-> retries,
     retryTimeout |-> retryTimeout, timeout |-> timeout, logger |-> logger,
     isLoggingEnabled |-> isLoggingEnabled, requestInterceptors |-> requestInterceptors,
     responseInterceptors |-> responseInterceptors]

\* The fields as a method leaves them.
Becomes(t) ==
    /\ formData' = t.formData
    /\ fdStore' = t.fdStore
    /\ nextFd' = t.nextFd
    /\ headers' = t.headers
    /\ searchParams' = t.searchParams
    /\ fetchOptions' = t.fetchOptions
    /\ retries' = t.retries
    /\ retryTimeout' = t.retryTimeout
    /\ timeout' = t.timeout
    /\ logger' = t.logger
    /\ isLoggingEnabled' = t.isLoggingEnabled
    /\ requestInterceptors' = t.requestInterceptors
    /\ responseInterceptors' = t.responseInterceptors

\* ------------------------------------------------------------ constructor
\* The options object: every key optional.
NoOptions ==
    [retries |-> None, timeout |-> None, retryTimeout |-> None, abortController |-> None,
     logger |-> None, debug |-> None, headers |-> None, method |-> None, body |-> None,
     signal |-> None, mode |-> None, cache |-> None]

\* `...options`: what is left after the named keys are destructured out.
RestOptions(o) ==
    [method |-> o.method, body |-> o.body, signal |-> o.signal, mode |-> o.mode,
     cache |-> o.cache, headers |-> None]

\* new AbortController() of the constructor; a caller's own is "ctlUser", and
\* "ctlOther" is the controller behind a signal given as the signal option.
NewController == "ctlNew"

\* this.fetchOptions = {...options, method: options.method || "GET", body: this.formData}
\* followed by this.fetchOptions.signal = this.controller.signal
CtorFetchOptions(o, ctl) ==
    [RestOptions(o) EXCEPT
        !.method = Some(OrIfFalsy(o.method, "GET")),
        !.body = Some(NullBody),
        !.signal = Some(ctl)]

NoResult == [kind |-> "pending", res |-> NoResponse, err |-> NoError]

\* new Fch(url, o).  When new Headers(headers) throws, the constructor throws
\* and there is no instance: the fields hold what they would have held and no
\* method can be called.
Constructed(o) ==
    /\ opts = o
    /\ instance = (NewHeaders(o.headers).thrown = NoError)
    /\ thrown = NewHeaders(o.headers).thrown
    /\ formData = None
    /\ fdStore = [i \in 1..MaxFd |-> <<>>]
    /\ nextFd = 1
    /\ headers = NewHeaders(o.headers).hs
    /\ searchParams = <<>>
    /\ fetchOptions = CtorFetchOptions(o, OrElse(o.abortController, NewController))
    /\ retries = OrElse(o.retries, DefaultRetries)
    /\ retryTimeout = OrElse(o.retryTimeout, DefaultRetryTimeout)
    /\ timeout = OrElse(o.timeout, DefaultTimeout)
    /\ controller = OrElse(o.abortController, NewController)
    /\ aborted = {}
    /\ logger = adaptLogger(o.logger)
    /\ isLoggingEnabled = OrElse(o.debug, FALSE)
    /\ requestInterceptors = <<>>
    /\ responseInterceptors = <<>>
    /\ requests = <<>>
    /\ timers = {}
    /\ sink = <<>>
    /\ cloned = None
    /\ ops = <<>>


\* ------------------------------------------------------ synchronous methods
\* A synchronous call of a method, at any time: it leaves the fields as `t` and
\* returns (err is NoError) or throws err; the requests in flight are left alone.
Call(name, t, err) ==
    /\ instance
    /\ ops' = Append(ops, name)
    /\ thrown' = err
    /\ Becomes(t)
    /\ UNCHANGED <<opts, instance, controller, requests, timers>>

\* A call that aborts nothing, logs nothing and makes no clone.
Called(name, t, err) ==
    /\ Len(ops) < MaxOps
    /\ Call(name, t, err)
    /\ UNCHANGED <<aborted, sink, cloned>>

\* A chainable method: it returns this.
Configure(name, t) == Called(name, t, NoError)

\* if (this.fetchOptions.method !== "PUT") this.fetchOptions.method = "POST"
PostUnlessPut(fo) ==
    IF fo.method # Some("PUT") THEN [fo EXCEPT !.method = Some("POST")] ELSE fo

\* {...this.fetchOptions, ...options}: a key of options wins when present.
SpreadMerge(fo, o) ==
    [k \in DOMAIN fo |-> IF o[k] # None THEN o[k] ELSE fo[k]]

\* for (const [key, value] of Object.entries(headers)) this.headers.set(key, value),
\* up to the first call that throws.
RECURSIVE HeadersSetAll(_, _)
HeadersSetAll(hs, entries) ==
    IF entries = <<>> THEN [hs |-> hs, thrown |-> NoError]
    ELSE LET out == HeadersSet(hs, entries[1][1], entries[1][2]) IN
         IF out.thrown # NoError THEN out ELSE HeadersSetAll(out.hs, Tail(entries))

\* URL.prototype.toString: the href, with the query the search params serialise to.
toString(sp) == "https://api.example.com/" \o (IF sp = <<>> THEN "" ELSE "?" \o SearchParamsToString(sp))

setSearchParams(params) ==
    Configure("setSearchParams",
              [This EXCEPT !.searchParams = SearchParamsSetAll(searchParams, params)])

appendSearchParams(params) ==
    Configure("appendSearchParams",
              [This EXCEPT !.searchParams = FormUrlEncodedPairs(searchParams, params)])

appendToFormData(key, value) ==
    LET id == IF formData = None THEN nextFd ELSE Get(formData) IN
    /\ id <= MaxFd
    /\ Len(fdStore[id]) < MaxEntries
    /\ Configure("appendToFormData",
                 [This EXCEPT !.formData = Some(id),
                              !.nextFd = IF formData = None THEN nextFd + 1 ELSE nextFd,
                              !.fdStore = [fdStore EXCEPT ![id] = Append(@, <<key, value>>)],
                              !.fetchOptions = PostUnlessPut(fetchOptions)])

\* The caller's FormData is a new object holding `entries`.
setFormData(entries) ==
    /\ nextFd <= MaxFd
    /\ Configure("setFormData",
                 [This EXCEPT !.formData = Some(nextFd),
                              !.nextFd = nextFd + 1,
                              !.fdStore = [fdStore EXCEPT ![nextFd] = entries],
                              !.fetchOptions = [PostUnlessPut(fetchOptions) EXCEPT
                                                    !.body = Some(FdBody(nextFd))]])

setHeaders(entries) ==
    LET out == HeadersSetAll(headers, entries) IN
    Called("setHeaders", [This EXCEPT !.headers = out.hs], out.thrown)

setAuthToken(token) ==
    LET out == HeadersSet(headers, "Authorization", "Bearer " \o token) IN
    Called("setAuthToken", [This EXCEPT !.headers = out.hs], out.thrown)

setBasicAuth(username, password) ==
    LET out == HeadersSet(headers, "Authorization", "Basic " \o Btoa(username \o ":" \o password)) IN
    Called("setBasicAuth", [This EXCEPT !.headers = out.hs], out.thrown)

getHeader(name) == Called("getHeader", This, HeadersGet(headers, name).thrown)

deleteHeader(name) ==
    LET out == HeadersDelete(headers, name) IN
    Called("deleteHeader", [This EXCEPT !.headers = out.hs], out.thrown)

\* setBody: formData and the body are assigned before the header is set, so they
\* stay assigned when this.headers.set throws.
SetBodyStep(name, body, contentType) ==
    LET out == IF contentType # None /\ Get(contentType) # ""
               THEN HeadersSet(headers, "Content-Type", Get(contentType))
               ELSE [hs |-> headers, thrown |-> NoError]
    IN Called(name,
              [This EXCEPT !.formData = None,
                           !.fetchOptions = [fetchOptions EXCEPT !.body = Some(body)],
                           !.headers = out.hs],
              out.thrown)

setBody(body, contentType) == SetBodyStep("setBody", body, contentType)

setFormUrlEncodedBody(data) ==
    SetBodyStep("setFormUrlEncodedBody",
                StrBody(SearchParamsToString(FormUrlEncodedPairs(<<>>, data))),
                Some("application/x-www-form-urlencoded"))

setJsonBody(json) ==
    SetBodyStep("setJsonBody", StrBody(JsonStringify(json)), Some("application/json"))

SetMethodStep(name, method) ==
    Configure(name, [This EXCEPT !.fetchOptions = [fetchOptions EXCEPT !.method = Some(ToUpperCase(method))]])

setMethod(method) == SetMethodStep("setMethod", method)

\* set method(value)
set_method(value) == SetMethodStep("method=", value)

setFetchOptions(options) ==
    Configure("setFetchOptions", [This EXCEPT !.fetchOptions = SpreadMerge(fetchOptions, options)])

setCORS(mode) ==
    Configure("setCORS", [This EXCEPT !.fetchOptions = [fetchOptions EXCEPT !.mode = Some(mode)]])

disableCache ==
    Configure("disableCache", [This EXCEPT !.fetchOptions = [fetchOptions EXCEPT !.cache = Some("no-store")]])

setTimeout(ms) == Configure("setTimeout", [This EXCEPT !.timeout = ms])

setRetries(count) == Configure("setRetries", [This EXCEPT !.retries = count])

enableLogging == Configure("enableLogging", [This EXCEPT !.isLoggingEnabled = TRUE])

disableLogging == Configure("disableLogging", [This EXCEPT !.isLoggingEnabled = FALSE])

\* setLogger: the logger is replaced as given, without adaptLogger.
setLogger(lg) == Configure("setLogger", [This EXCEPT !.logger = lg])

\* getLogger().info / warn / error (message)
getLoggerLog(level, message) ==
    LET out == GetLoggerCall(logger, level, message, isLoggingEnabled) IN
    /\ Len(ops) < MaxOps
    /\ Call("getLogger." \o level, This, out.thrown)
    /\ sink' = sink \o out.calls
    /\ UNCHANGED <<aborted, cloned>>

addRequestInterceptor(interceptor) ==
    /\ Len(requestInterceptors) < MaxInterceptors
    /\ Call("addRequestInterceptor",
            [This EXCEPT !.requestInterceptors = Append(requestInterceptors, interceptor)], NoError)
    /\ UNCHANGED <<aborted, sink, cloned>>

addResponseInterceptor(interceptor) ==
    /\ Len(responseInterceptors) < MaxInterceptors
    /\ Call("addResponseInterceptor",
            [This EXCEPT !.responseInterceptors = Append(responseInterceptors, interceptor)], NoError)
    /\ UNCHANGED <<aborted, sink, cloned>>

\* abort(): this.controller.abort(), at any time; it returns nothing.
abort ==
    /\ Len(ops) < MaxOps
    /\ Call("abort", This, NoError)
    /\ aborted' = aborted \cup {controller}
    /\ UNCHANGED <<sink, cloned>>

\* clone(): the instance new Fch(this.toString(), {...this.fetchOptions}) builds,
\* after the setters clone() calls on it; the logger, the debug flag and the
\* retry delay are the constructor's defaults, the query is rewritten by
\* setSearchParams, and only a FormData or string body held in fetchOptions is
\* carried over.  `thrown` is what the constructor throws on the headers that
\* setFetchOptions stored.
CloneOf ==
    LET ctor == NewHeaders(fetchOptions.headers)
        o == [NoOptions EXCEPT !.method = fetchOptions.method, !.body = fetchOptions.body,
                               !.signal = fetchOptions.signal, !.mode = fetchOptions.mode,
                               !.cache = fetchOptions.cache]
        fo == CtorFetchOptions(o, "ctlCloneFirst")
        body == Get(fetchOptions.body)
    IN [thrown |-> ctor.thrown,
        url |-> toString(SearchParamsSetAll(searchParams, searchParams)),
        headers |-> headers @@ ctor.hs,
        timeout |-> timeout,
        retries |-> retries,
        retryTimeout |-> DefaultRetryTimeout,
        controller |-> "ctlClone",
        logger |-> createDefaultLogger,
        isLoggingEnabled |-> FALSE,
        requestInterceptors |-> requestInterceptors,
        responseInterceptors |-> responseInterceptors,
        formData |-> IF body.t = "fd" THEN Some(fdStore[body.id]) ELSE None,
        fetchOptions |-> IF body.t = "fd" THEN [PostUnlessPut(fo) EXCEPT !.body = Some(FdBody(0))]
                         ELSE IF body.t = "str" THEN [fo EXCEPT !.body = Some(body)]
                         ELSE fo]

clone ==
    /\ Len(ops) < MaxOps
    /\ Call("clone", This, CloneOf.thrown)
    /\ cloned' = IF CloneOf.thrown = NoError THEN Some(CloneOf) ELSE cloned
    /\ UNCHANGED <<aborted, sink>>

\* ------------------------------------------------------------ interceptors
\* The request interceptors a caller registers: functions of the instance.
\*   "xTest":  (req) => { req.setHeaders({ "X-Test": "true" }) }
\*   "usePut": (req) => { req.setMethod("put") }
\*   "setHeader": (request) => { request.setHeader("X-Custom-Header", "value") },
\*       the example of addRequestInterceptor's documentation: an Fch has no
\*       method setHeader, so the call throws
\* `trace` lists the interceptors called, `thrown` is what the last one threw.
RequestInterceptors == {"xTest", "usePut", "setHeader"}

ApplyRequestInterceptor(i, st) ==
    CASE i = "xTest" ->
            [st EXCEPT !.headers = HeadersSetAll(@, <<<<"X-Test", "true">>>>).hs,
                       !.trace = Append(@, i)]
      [] i = "usePut" ->
            [st EXCEPT !.fetchOptions = [@ EXCEPT !.method = Some(ToUpperCase("put"))],
                       !.trace = Append(@, i)]
      [] i = "setHeader" ->
            [st EXCEPT !.thrown = NoSuchMethod("request", "setHeader"),
                       !.trace = Append(@, i)]

\* this.requestInterceptors.forEach((interceptor) => interceptor(this)): an
\* interceptor that throws ends the loop.
RECURSIVE ForEachRequestInterceptor(_, _)
ForEachRequestInterceptor(is, st) ==
    IF is = <<>> \/ st.thrown # NoError THEN st
    ELSE ForEachRequestInterceptor(Tail(is), ApplyRequestInterceptor(Head(is), st))

\* The response interceptors a caller registers:
\*   "mark1", "mark2": (res) => { res.headers.set(...); return res }
\*   "throwIfNotOk":   async (res) => { if (!res.ok) throw new Error("Request failed"); return res }
\*   "rejectIfNotOk":  (res) => res.ok ? res : Promise.reject(), a promise rejected
\*       with undefined
\* Headers.set throws a TypeError on headers whose guard is "immutable".
ResponseInterceptors == {"mark1", "mark2", "throwIfNotOk", "rejectIfNotOk"}

ApplyResponseInterceptor(i, res) ==
    CASE i = "throwIfNotOk" ->
            IF IsOk(res) THEN [ok |-> TRUE, res |-> res, err |-> NoError]
            ELSE [ok |-> FALSE, res |-> NoResponse, err |-> InterceptorError]
      [] i = "rejectIfNotOk" ->
            IF IsOk(res) THEN [ok |-> TRUE, res |-> res, err |-> NoError]
            ELSE [ok |-> FALSE, res |-> NoResponse, err |-> Undefined]
      [] OTHER ->
            IF res.guard = "immutable"
            THEN [ok |-> FALSE, res |-> NoResponse, err |-> ImmutableError]
            ELSE [ok |-> TRUE, res |-> [res EXCEPT !.marks = Append(@, i)], err |-> NoError]

\* reduce(async (prev, interceptor) => interceptor(await prev), response) visits the
\* array from its first element: the interceptor that runs next.
NextInterceptorFromRight(is) == is[Len(is)]
NextInterceptor(is) == Head(is)

\* ------------------------------------------------------------ fetch
\* get method(): this.fetchOptions.method || "GET"
Method(fo) == OrIfFalsy(fo.method, "GET")

\* fetch(this.toString(), { ...this.fetchOptions, signal: this.controller.signal }),
\* with the entries a FormData body holds when fetch reads it.
FetchInitStoredSignal(href, fo, ctl, store) ==
    [url |-> href,
     method |-> fo.method,
     body |-> fo.body,
     signal |-> fo.signal,
     headers |-> fo.headers,
     mode |-> fo.mode,
     cache |-> fo.cache,
     entries |-> IF fo.body # None /\ Get(fo.body).t = "fd" THEN store[Get(fo.body).id] ELSE <<>>]

FetchInit(href, fo, ctl, store) ==
    [url |-> href,
     method |-> fo.method,
     body |-> fo.body,
     signal |-> Some(ctl),
     headers |-> fo.headers,
     mode |-> fo.mode,
     cache |-> fo.cache,
     entries |-> IF fo.body # None /\ Get(fo.body).t = "fd" THEN store[Get(fo.body).id] ELSE <<>>]

\* Fetch standard, new Request(url, init): a method that is one of these in any
\* letter case is upper-cased; any other is kept as given.
NormalizeMethod(m) ==
    IF ToUpperCase(m) \in {"DELETE", "GET", "HEAD", "OPTIONS", "POST", "PUT"} THEN ToUpperCase(m) ELSE m

\* What new Request(url, init) throws, in the order of its checks: the mode
\* "navigate"; the cache mode "only-if-cached" in a mode other than "same-origin"
\* (the mode of a request made from a URL is "cors" unless init names one); a
\* method that is no token or is forbidden; a method other than GET, HEAD and
\* POST in the mode "no-cors"; headers that cannot be filled; a GET or HEAD
\* request with a body.
RequestError(args) ==
    LET m == OrElse(args.method, "GET")
        mode == OrElse(args.mode, "cors")
    IN
    IF mode = "navigate"
    THEN [name |-> "TypeError", message |-> "Request constructor: invalid request mode navigate."]
    ELSE IF args.cache = Some("only-if-cached") /\ mode # "same-origin"
    THEN [name |-> "TypeError", message |-> "'only-if-cached' can be set only with 'same-origin' mode"]
    ELSE IF ~IsToken(m)
    THEN [name |-> "TypeError", message |-> "'" \o m \o "' is not a valid HTTP method."]
    ELSE IF ToUpperCase(m) \in {"CONNECT", "TRACE", "TRACK"}
    THEN [name |-> "TypeError", message |-> "'" \o m \o "' HTTP method is unsupported."]
    ELSE IF mode = "no-cors" /\ NormalizeMethod(m) \notin {"GET", "HEAD", "POST"}
    THEN [name |-> "TypeError", message |-> "'" \o NormalizeMethod(m) \o " is unsupported in no-cors mode."]
    ELSE IF NewHeaders(args.headers).thrown # NoError THEN NewHeaders(args.headers).thrown
    ELSE IF NormalizeMethod(m) \in {"GET", "HEAD"} /\ args.body # None /\ Get(args.body).t # "null"
    THEN [name |-> "TypeError", message |-> "Request with GET/HEAD method cannot have body."]
    ELSE NoError

BadRequest(args) == RequestError(args) # NoError

\* The ways the pending fetch can reject.
FetchRejections(args, abortedNow) ==
    IF BadRequest(args) THEN {RequestError(args)}
    ELSE IF Get(args.signal) \in abortedNow THEN {AbortError}
    ELSE {NetworkError}

\* Whether the pending fetch can still resolve with a response.
FetchCanResolve(args, abortedNow) ==
    ~BadRequest(args) /\ Get(args.signal) \notin abortedNow

\* `${response.status}`
StatusText(status) == ToString(status)

\* ------------------------------------------------------------ makeRequest
\* retries: number = this.retries || 1
RetriesParam(arg, r) == OrElse(arg, IF r # 0 THEN r ELSE 1)
\* retryTimeout: number = this.retryTimeout
RetryTimeoutParam(arg, rt) == OrElse(arg, rt)

\* for (let attempt = 0; attempt < retries; attempt++)
LoopContinues(a, nn) == a < nn
\* if (attempt > 0 && retryTimeout > 0) await new Promise(... setTimeout ...)
NeedsDelay(a, d) == a > 0 /\ d > 0
\* if (attempt === retries - 1) throw error
IsLastAttempt(a, nn) == a = nn - 1
\* const timeoutId = setTimeout(() => this.controller.abort(), this.timeout)
SetTimer(ts, c, a, ms) == ts \cup {[call |-> c, attempt |-> a, ms |-> ms]}
\* clearTimeout(timeoutId)
ClearTimeoutForgotten(ts, c, a) == ts
ClearTimeout(ts, c, a) == {t \in ts : ~(t.call = c /\ t.attempt = a)}

ErrorResult(err) == [kind |-> "error", res |-> NoResponse, err |-> err]

\* An activation of makeRequest: where it stands (pc), its parameters n (retries)
\* and delay (retryTimeout), its loop variable, the arguments of its last fetch
\* call, the response passing through the interceptors and the interceptors
\* still to run on it, what its promise settled with; and, as a record of its
\* run: the fetch calls it made, the attempts that failed, the error of the
\* last one, its last logger call, the request interceptors it ran, the
\* attempts whose timer fired, and the synchronous calls made before it began.
NewRequest(nn, d, at) ==
    [pc |-> "called", n |-> nn, delay |-> d, attempt |-> 0,
     fetchArgs |-> [url |-> "", method |-> None, body |-> None, signal |-> None,
                    headers |-> None, mode |-> None, cache |-> None, entries |-> <<>>],
     cur |-> NoResponse, todo |-> <<>>, result |-> NoResult, nFetch |-> 0, nFailed |-> 0,
     lastErr |-> NoError, lastLog |-> [fn |-> "", args |-> <<>>, enabled |-> FALSE], reqTrace |-> <<>>, fired |-> {}, opsAtCall |-> at]

\* What a step of an activation leaves: the activation, the timers, and the
\* calls it made to the logger.
Out(r, ts, logs) == [req |-> r, timers |-> ts, logs |-> logs]

\* this.logger.info / this.logger.error of makeRequest and catch: the logger
\* itself, not getLogger().
Log(level, msg) == LoggerCall(logger, level, msg, isLoggingEnabled)

\* The loop of activation c from the top of the iteration r.attempt, entered
\* with the timers `ts` armed, up to its next await.
LoopFrom(r, c, waited, ts, fo, logs) ==
    IF ~LoopContinues(r.attempt, r.n)
    THEN Out([r EXCEPT !.pc = "resolved", !.result = [NoResult EXCEPT !.kind = "undefined"]], ts, logs)
    ELSE IF ~waited /\ NeedsDelay(r.attempt, r.delay)
    THEN Out([r EXCEPT !.pc = "delay"], ts, logs)
    ELSE Out([r EXCEPT !.pc = "fetching",
                       !.fetchArgs = FetchInit(toString(searchParams), fo, controller, fdStore),
                       !.nFetch = @ + 1],
             SetTimer(ts, c, r.attempt, timeout), logs)

\* The catch block of the loop, for an attempt that failed with `err`: when
\* err is undefined, reading err.message throws out of the loop, and so does the
\* call when this.logger.error is not a function.
AttemptFailed(r, c, err, ts) ==
    LET failed == [r EXCEPT !.nFailed = @ + 1, !.lastErr = err, !.cur = NoResponse, !.todo = <<>>]
        call == Log("error", "Request failed: " \o err.message)
    IN IF err = Undefined
       THEN Out([failed EXCEPT
                    !.pc = "rejected",
                    !.result = ErrorResult([name |-> "TypeError",
                                            message |-> "Cannot read properties of undefined (reading 'message')"])],
                ts, <<>>)
       ELSE IF ~logger.error
       THEN Out([failed EXCEPT !.pc = "rejected", !.result = ErrorResult(NotAFunction("error"))],
                ts, <<>>)
       ELSE IF IsLastAttempt(r.attempt, r.n)
       THEN Out([failed EXCEPT !.pc = "rejected", !.result = ErrorResult(err), !.lastLog = call],
                ts, <<call>>)
       ELSE LoopFrom([failed EXCEPT !.attempt = @ + 1, !.lastLog = call], c, FALSE, ts,
                     fetchOptions, <<call>>)

\* The try block of the loop, for an attempt that produced `res`: when
\* this.logger.info is not a function the call throws into the catch block.
AttemptSucceeded(r, c, res, ts) ==
    LET call == Log("info", "Received response with status " \o StatusText(res.status)) IN
    IF ~logger.info
    THEN AttemptFailed(r, c, NotAFunction("info"), ts)
    ELSE Out([r EXCEPT !.pc = "resolved", !.lastLog = call,
                       !.result = [kind |-> "response", res |-> res, err |-> NoError],
                       !.cur = NoResponse, !.todo = <<>>],
             ts, <<call>>)

\* makeRequest up to its first await, after `before` was logged by the caller:
\* a new activation.  When this.logger.info is not a function its promise is
\* rejected at once, before the request interceptors run; when one of them
\* throws it is rejected with what was thrown, before the loop.
MakeRequestStep(before, retriesArg, retryTimeoutArg) ==
    LET c == Len(requests) + 1
        r == NewRequest(RetriesParam(retriesArg, retries),
                        RetryTimeoutParam(retryTimeoutArg, retryTimeout), Len(ops))
        st == ForEachRequestInterceptor(requestInterceptors,
                  [headers |-> headers, fetchOptions |-> fetchOptions, trace |-> <<>>,
                   thrown |-> NoError])
        call == Log("info", "Making request to " \o toString(searchParams)
                                \o " with method " \o Method(fetchOptions))
        out == IF ~logger.info
               THEN Out([r EXCEPT !.pc = "rejected",
                                  !.result = ErrorResult(NotAFunction("info"))],
                        timers, <<>>)
               ELSE IF st.thrown # NoError
               THEN Out([r EXCEPT !.pc = "rejected", !.result = ErrorResult(st.thrown),
                                  !.reqTrace = st.trace, !.lastLog = call],
                        timers, <<call>>)
               ELSE LoopFrom([r EXCEPT !.reqTrace = st.trace, !.lastLog = call], c, FALSE,
                             timers, st.fetchOptions, <<call>>)
    IN
    /\ instance
    /\ Len(requests) < MaxCalls
    /\ requests' = Append(requests, out.req)
    /\ timers' = out.timers
    /\ sink' = (sink \o before) \o out.logs
    /\ thrown' = NoError
    /\ Becomes(IF logger.info
               THEN [This EXCEPT !.headers = st.headers, !.fetchOptions = st.fetchOptions]
               ELSE This)
    /\ UNCHANGED <<opts, instance, controller, aborted, cloned, ops>>

makeRequest(retriesArg, retryTimeoutArg) == MakeRequestStep(<<>>, retriesArg, retryTimeoutArg)

\* catch(onRejected): this.logger.error(...), then this.makeRequest().catch(onRejected);
\* when this.logger.error is not a function the call throws before makeRequest.
catch ==
    IF logger.error
    THEN MakeRequestStep(<<Log("error", "Caught an error during the request")>>, None, None)
    ELSE /\ instance
         /\ thrown' = NotAFunction("error")
         /\ UNCHANGED <<opts, instance, cfgVars, controller, aborted, requests, timers, sink, cloned, ops>>

\* then(onFulfilled, onRejected): this.makeRequest().then(onFulfilled, onRejected)
then == makeRequest(None, None)

\* finally(onFinally): this.makeRequest().finally(onFinally)
finally == makeRequest(None, None)

\* json(), text(), blob(): this.makeRequest().then(...)
json == makeRequest(None, None)
text == makeRequest(None, None)
blob == makeRequest(None, None)

\* One iteration of poll(), with the instance's controller as its abortController:
\* while (!abortController.signal.aborted) { ... await this.makeRequest() ... }
poll == controller \notin aborted /\ makeRequest(None, None)

\* A step of activation c: it leaves `out`.
Settle(c, out) ==
    /\ requests' = [requests EXCEPT ![c] = out.req]
    /\ timers' = out.timers
    /\ sink' = sink \o out.logs
    /\ UNCHANGED <<opts, instance, cfgVars, controller, aborted, thrown, cloned, ops>>

\* A fetch whose promise is already rejected (a bad request, an aborted signal)
\* settles in a microtask, before any timer callback or network event can run.
SettlesAtOnce(c) ==
    requests[c].pc = "fetching" /\ ~FetchCanResolve(requests[c].fetchArgs, aborted)
Quiet == \A c \in DOMAIN requests : ~SettlesAtOnce(c)

\* The retry delay elapsed: the loop goes on to fetchWithTimeout.
RetryDelayElapsed(c) ==
    /\ requests[c].pc = "delay"
    /\ Quiet
    /\ Settle(c, LoopFrom(requests[c], c, TRUE, timers, fetchOptions, <<>>))

\* The pending fetch rejected: clearTimeout, rethrow, the loop's catch block.
FetchRejected(c) ==
    /\ requests[c].pc = "fetching"
    /\ SettlesAtOnce(c) \/ Quiet
    /\ \E err \in FetchRejections(requests[c].fetchArgs, aborted) :
          Settle(c, AttemptFailed(requests[c], c, err,
                                  ClearTimeout(timers, c, requests[c].attempt)))

\* The pending fetch resolved: clearTimeout, then the response interceptors; with
\* none registered the attempt has succeeded.
FetchResolved(c, status, guard) ==
    /\ requests[c].pc = "fetching"
    /\ Quiet
    /\ LET r == requests[c]
           ts == ClearTimeout(timers, c, r.attempt)
       IN Settle(c, IF responseInterceptors = <<>>
                    THEN AttemptSucceeded(r, c, Response(status, guard), ts)
                    ELSE Out([r EXCEPT !.pc = "pipeline", !.cur = Response(status, guard),
                                       !.todo = responseInterceptors],
                             ts, <<>>))

\* One response interceptor ran on the awaited output of the one before it.
ResponseInterceptorRan(c) ==
    /\ requests[c].pc = "pipeline"
    /\ LET r == requests[c]
           out == ApplyResponseInterceptor(NextInterceptor(r.todo), r.cur)
       IN Settle(c, IF ~out.ok THEN AttemptFailed(r, c, out.err, timers)
                    ELSE IF Len(r.todo) = 1 THEN AttemptSucceeded(r, c, out.res, timers)
                    ELSE Out([r EXCEPT !.cur = out.res, !.todo = Tail(r.todo)], timers, <<>>))

\* An armed timeout timer fired: this.controller.abort().
TimerFired ==
    /\ Quiet
    /\ \E t \in timers :
          /\ timers' = timers \ {t}
          /\ requests' = [requests EXCEPT ![t.call].fired = @ \cup {t.attempt}]
    /\ aborted' = aborted \cup {controller}
    /\ UNCHANGED <<opts, instance, cfgVars, controller, sink, thrown, cloned, ops>>

\* ------------------------------------------------------------ specifications
\* What the environment does to the requests in flight; the responses it
\* resolves with have headers of one of the `guards`.
FetchSettles(guards) ==
    \/ \E c \in DOMAIN requests : FetchRejected(c)
    \/ \E c \in DOMAIN requests, status \in Statuses, guard \in guards : FetchResolved(c, status, guard)
    \/ TimerFired

\* Retries and timeouts, around one response interceptor registered at any time.
InitRetry ==
    \E o \in {NoOptions,
              [NoOptions EXCEPT !.retryTimeout = Some(SomeRetryTimeout), !.timeout = Some(SomeTimeout)]} :
        Constructed(o)

NextRetry ==
    \/ \E r \in {0, MaxRetries} : setRetries(r)
    \/ setTimeout(OtherTimeout)
    \/ setCORS("navigate")
    \/ responseInterceptors = <<>> /\ addResponseInterceptor("throwIfNotOk")
    \/ abort
    \/ \E r \in {None} \cup {Some(k) : k \in 0..MaxRetries} : makeRequest(r, None)
    \/ FetchSettles({"immutable"})
    \/ \E c \in DOMAIN requests : RetryDelayElapsed(c)
    \/ \E c \in DOMAIN requests : ResponseInterceptorRan(c)

SpecRetry == InitRetry /\ [][NextRetry]_vars

\* The interceptors.
InitPipe == Constructed([NoOptions EXCEPT !.retries = Some(MaxRetries)])

NextPipe ==
    \/ \E i \in RequestInterceptors : addRequestInterceptor(i)
    \/ \E i \in {"mark1", "mark2"} : addResponseInterceptor(i)
    \/ setLogger(LoggerObject("other", FALSE, FALSE, FALSE))
    \/ makeRequest(None, None)
    \/ \E c \in DOMAIN requests : FetchRejected(c)
    \/ \E c \in DOMAIN requests : FetchResolved(c, 200, "response")
    \/ \E c \in DOMAIN requests : ResponseInterceptorRan(c)

SpecPipe == InitPipe /\ [][NextPipe]_vars

\* Response interceptors that fail, with logging disabled and enabled.
InitFail ==
    \E d \in {None, Some(TRUE)} :
        Constructed([NoOptions EXCEPT !.retries = Some(MaxRetries), !.debug = d])

NextFail ==
    \/ enableLogging
    \/ \E i \in {"mark1", "throwIfNotOk", "rejectIfNotOk"} : addResponseInterceptor(i)
    \/ makeRequest(None, None)
    \/ \E c \in DOMAIN requests : FetchRejected(c)
    \/ \E c \in DOMAIN requests, status \in Statuses : FetchResolved(c, status, "immutable")
    \/ \E c \in DOMAIN requests : ResponseInterceptorRan(c)

SpecFail == InitFail /\ [][NextFail]_vars

\* Logging.
InitLog ==
    \E l \in {None} \cup {Some(lg) : lg \in LoggersNamed("logger")},
       d \in {None, Some(TRUE), Some(FALSE)} :
        Constructed([NoOptions EXCEPT !.logger = l, !.debug = d])

NextLog ==
    \/ enableLogging
    \/ disableLogging
    \/ \E lg \in LoggersNamed("other") : setLogger(lg)
    \/ \E level \in Levels : getLoggerLog(level, "test")
    \/ makeRequest(None, None)
    \/ catch
    \/ FetchSettles({"immutable"})

SpecLog == InitLog /\ [][NextLog]_vars

\* The constructor's options and the headers.
XCustom == <<<<"X-Custom", "test">>>>

InitCtor ==
    \E o \in {NoOptions,
              [NoOptions EXCEPT !.retries = Some(SomeRetries), !.timeout = Some(SomeTimeout),
                                !.retryTimeout = Some(SomeRetryTimeout), !.headers = Some(XCustom)],
              [NoOptions EXCEPT !.retries = Some(0)],
              [NoOptions EXCEPT !.method = Some("POST"), !.body = Some(StrBody("raw")),
                                !.headers = Some(XCustom)],
              [NoOptions EXCEPT !.method = Some("get"), !.body = Some(StrBody("raw"))],
              [NoOptions EXCEPT !.method = Some("")],
              [NoOptions EXCEPT !.headers = Some(<<<<"X Bad", "v">>>>)],
              [NoOptions EXCEPT !.headers = Some(<<<<"a", "x\ny">>>>)]} :
        Constructed(o)

NextCtor ==
    \/ \E e \in {<<<<"Content-Type", "application/json">>>>, <<<<"X Bad", "v">>>>, <<<<"a", "x\ny">>>>} : setHeaders(e)
    \/ \E token \in {"my-token", "my\ntoken"} : setAuthToken(token)
    \/ setBasicAuth("user", "pass")
    \/ \E name \in {"x-custom", "X Bad"} : getHeader(name)
    \/ \E name \in {"x-custom", "X Bad"} : deleteHeader(name)
    \/ setFetchOptions([RestOptions(NoOptions) EXCEPT !.headers = Some(<<<<"X Bad", "v">>>>)])
    \/ clone
    \/ makeRequest(None, None)
    \/ then
    \/ finally
    \/ json
    \/ text
    \/ blob
    \/ FetchSettles({"immutable"})
    \/ \E c \in DOMAIN requests : RetryDelayElapsed(c)

SpecCtor == InitCtor /\ [][NextCtor]_vars

\* The signal of a request.

InitSignal ==
    \E sg \in {None, Some("ctlOther")}, ac \in {None, Some("ctlUser")} :
        Constructed([NoOptions EXCEPT !.signal = sg, !.abortController = ac])

NextSignal ==
    \/ setFetchOptions([RestOptions(NoOptions) EXCEPT !.signal = Some("ctlOther"),
                                                      !.cache = Some("no-store")])
    \/ setFetchOptions([RestOptions(NoOptions) EXCEPT !.cache = Some("only-if-cached")])
    \/ abort
    \/ \E r \in {None, Some(MaxRetries)} : makeRequest(r, None)
    \/ poll
    \/ \E c \in DOMAIN requests : FetchRejected(c)
    \/ \E c \in DOMAIN requests : FetchResolved(c, 200, "immutable")
    \/ TimerFired

SpecSignal == InitSignal /\ [][NextSignal]_vars

\* The body helpers, the method and the query.
InitBody ==
    \E m \in {None, Some("PUT"), Some("get")} : Constructed([NoOptions EXCEPT !.method = m])

NextBody ==
    \/ appendToFormData("key", "value")
    \/ setFormData(<<<<"file", "blob">>>>)
    \/ \E b \in {NullBody, StrBody("raw")}, ct \in {None, Some("text/plain")} : setBody(b, ct)
    \/ setJsonBody(<<<<"name", Str("Alice")>>>>)
    \/ setFormUrlEncodedBody(<<<<"username", Str("user")>>, <<"tags", Arr(<<Str("a b"), Num(1), Bool(TRUE)>>)>>>>)
    \/ \E m \in {"put", "", "trace"} : setMethod(m)
    \/ set_method("Patch")
    \/ \E o \in {[RestOptions(NoOptions) EXCEPT !.headers = Some(XCustom)],
                 [RestOptions(NoOptions) EXCEPT !.method = Some("POST")],
                 [RestOptions(NoOptions) EXCEPT !.cache = Some("only-if-cached")]} :
          setFetchOptions(o)
    \/ \E mode \in {"cors", "no-cors", "navigate"} : setCORS(mode)
    \/ disableCache
    \/ \E p \in {<<<<"a", "1">>>>, <<<<"a", "x y">>, <<"b", "2">>>>} : setSearchParams(p)
    \/ appendSearchParams(<<<<"a", Str("3")>>, <<"c", Arr(<<Str("4"), Str("5")>>)>>>>)
    \/ makeRequest(None, None)
    \/ FetchSettles({"immutable"})

SpecBody == InitBody /\ [][NextBody]_vars

\* ------------------------------------------------------------ retries (C1, C3)
Last(q) == q[Len(q)]

\* C1: a makeRequest called with retries = n >= 1 makes at most n fetch attempts,
\* and an attempt fails only after its fetch was called; it resolves with a
\* response as soon as one attempt succeeds (the attempts before it all failed and
\* none is started after it), a resolved fetch with an HTTP error status being a
\* success; it rejects only when n attempts were made and all n failed, with the
\* error of the n-th.
C1_RetryContract ==
    \A c \in DOMAIN requests :
        LET r == requests[c] IN
        r.n >= 1 =>
            /\ r.nFetch <= r.n
            /\ r.nFailed <= r.nFetch
            /\ r.pc = "resolved" =>
                  /\ r.result.kind = "response"
                  /\ r.result.res.status \in Statuses
                  /\ r.nFetch = r.nFailed + 1
                  /\ r.attempt = r.nFailed
            /\ r.pc = "rejected" =>
                  /\ r.nFailed = r.n
                  /\ r.nFetch = r.n
                  /\ r.result = ErrorResult(r.lastErr)
            /\ r.result.kind = "error" => r.pc = "rejected"

\* The errors a response interceptor of ResponseInterceptors fails with.
InterceptorErrors == {InterceptorError, ImmutableError, Undefined}

\* C3: when a response interceptor throws or rejects, the attempt has failed: the
\* failure is the last thing the call gave this.logger.error; while attempts remain
\* the request goes on (it is not rejected); once n attempts have failed
\* makeRequest is rejected with the interceptor's error.
C3_InterceptorFailure ==
    \A c \in DOMAIN requests :
        LET r == requests[c] IN
        (r.nFailed >= 1 /\ r.lastErr \in InterceptorErrors) =>
            /\ r.pc \in {"fetching", "delay", "pipeline", "rejected"} =>
                  /\ r.lastLog.fn = LoggerCall(logger, "error", "", TRUE).fn
                  /\ Last(r.lastLog.args) = "Request failed: " \o r.lastErr.message
                  /\ \E k \in DOMAIN sink : sink[k] = r.lastLog
            /\ r.nFailed < r.n => r.pc \in {"fetching", "delay", "pipeline", "resolved"}
            /\ r.pc \in {"fetching", "pipeline"} => r.nFetch = r.nFailed + 1
            /\ r.nFailed = r.n => r.pc = "rejected" /\ r.result = ErrorResult(r.lastErr)

\* ------------------------------------------------------------ timeout (C2)
TimerState ==
    /\ \A t \in timers : t.call \in DOMAIN requests
    /\ \A c \in DOMAIN requests :
          LET r == requests[c]
              mine == {t \in timers : t.call = c}
          IN /\ (r.pc = "fetching" /\ r.attempt \notin r.fired) => Cardinality(mine) = 1
             /\ \A t \in mine : t.attempt = r.attempt
             /\ mine # {} => r.pc = "fetching"
             /\ r.fired # {} => controller \in aborted
             /\ r.attempt \in r.fired =>
                   /\ r.pc \in {"fetching", "rejected"}
                   /\ r.pc = "fetching" =>
                         /\ ~FetchCanResolve(r.fetchArgs, aborted)
                         /\ FetchRejections(r.fetchArgs, aborted) = {AbortError}
                   /\ r.pc = "rejected" => r.lastErr = AbortError
             /\ \A a \in r.fired : a <= r.attempt /\ (a < r.attempt => r.nFailed >= a + 1)

\* The step in which an activation calls fetch arms a timer of this.timeout ms
\* for that attempt; no other step arms one.
CallsFetch(c) ==
    /\ requests'[c].pc = "fetching"
    /\ c \in DOMAIN requests =>
          (requests[c].pc # "fetching" \/ requests[c].attempt # requests'[c].attempt)
TimerArmed ==
    /\ \A c \in DOMAIN requests' :
          CallsFetch(c) =>
              [call |-> c, attempt |-> requests'[c].attempt, ms |-> timeout'] \in timers' \ timers
    /\ \A t \in timers' \ timers :
          /\ t.call \in DOMAIN requests'
          /\ CallsFetch(t.call)
          /\ t = [call |-> t.call, attempt |-> requests'[t.call].attempt, ms |-> timeout']

\* C2: an attempt arms one timer of `timeout` ms when it calls fetch; a timer is
\* armed only while its own attempt's fetch is pending, so none is left once the
\* fetch has settled; an attempt whose timer fired has the controller aborted and
\* can only fail.
C2_Timeout == []TimerState /\ [][TimerArmed]_vars

\* The timer of the first attempt fired while its fetch was pending; the attempt
\* failed with AbortError and the next one is in flight with its own timer, of the
\* timeout set meanwhile.
C2_Witness ==
    \E c \in DOMAIN requests :
        /\ 0 \in requests[c].fired
        /\ requests[c].attempt = 1
        /\ requests[c].pc = "fetching"
        /\ [call |-> c, attempt |-> 1, ms |-> OtherTimeout] \in timers
        /\ opts.timeout = None
        /\ requests[c].lastErr = AbortError
        /\ controller \in aborted

\* ------------------------------------------------------------ interceptors (C10)
IsMark(i) == i \in {"mark1", "mark2"}
MarksOf(is) == SelectSeq(is, IsMark)
IsPrefix(p, q) == Len(p) <= Len(q) /\ p = SubSeq(q, 1, Len(p))
\* No synchronous call named `name` was made since the activation began.
NoneSince(r, name) == \A k \in (r.opsAtCall + 1)..Len(ops) : ops[k] # name
\* The registered request interceptors up to the first that throws, included.
RECURSIVE UpToFirstThrow(_)
UpToFirstThrow(is) ==
    IF is = <<>> THEN <<>>
    ELSE IF Head(is) = "setHeader" THEN <<Head(is)>>
    ELSE <<Head(is)>> \o UpToFirstThrow(Tail(is))
Ran(r, i) == \E k \in DOMAIN r.reqTrace : r.reqTrace[k] = i

\* What a call's request interceptors have done, and its response interceptors:
\* the request interceptors that ran leave their effects (the X-Test header, the
\* method PUT of the fetch calls); while the response interceptors run, those
\* already run and those still to run are consecutive stretches of the registered
\* list, from its first element, and the response carries the marks of those run,
\* in that order; the response makeRequest resolves with carries the marks of the
\* interceptors registered when the fetch resolved, in registration order (none
\* when no interceptor is registered).
PipelineOrder(r) ==
    /\ IsPrefix(r.reqTrace, requestInterceptors)
    /\ Ran(r, "xTest") => HeadersGet(headers, "X-Test").value = Some("true")
    /\ (r.nFetch >= 1 /\ Ran(r, "usePut")) => r.fetchArgs.method = Some("PUT")
    /\ r.pc = "pipeline" =>
          \E k \in 1..Len(responseInterceptors) : \E m \in k..Len(responseInterceptors) :
              /\ r.todo = SubSeq(responseInterceptors, k, m)
              /\ r.cur.marks = MarksOf(SubSeq(responseInterceptors, 1, k - 1))
              /\ NoneSince(r, "addResponseInterceptor") => m = Len(responseInterceptors)
    /\ (r.pc = "resolved" /\ r.result.kind = "response") =>
          \E m \in 0..Len(responseInterceptors) :
              /\ r.result.res.marks = MarksOf(SubSeq(responseInterceptors, 1, m))
              /\ NoneSince(r, "addResponseInterceptor") => m = Len(responseInterceptors)

C4_LoggingRespectsState ==
    /\ \A k \in DOMAIN sink : sink[k].enabled
    /\ \A level \in Levels :
          (requests = <<>> /\ ops # <<>> /\ Last(ops) = "getLogger." \o level
                /\ isLoggingEnabled /\ logger[level]) =>
              (sink # <<>> /\ Last(sink) = LoggerCall(logger, level, "test", TRUE))

\* The call the instance's logger is to receive for getLogger()[level](msg): the
\* constructor's logger when all three of its members are functions, else console.
ExpectedDelivery(o, level, msg) ==
    IF o.logger # None /\ Get(o.logger) = LoggerObject("logger", TRUE, TRUE, TRUE)
    THEN [fn |-> "logger." \o level, args |-> <<msg>>]
    ELSE [fn |-> (CASE level = "info" -> "console.log"
                    [] level = "warn" -> "console.warn"
                    [] level = "error" -> "console.error"),
          args |-> <<(CASE level = "info" -> "[INFO]"
                        [] level = "warn" -> "[WARN]"
                        [] level = "error" -> "[ERROR]"), msg>>]

\* C5: on an instance constructed without the debug option, the first call
\* getLogger()[level]("test") is delivered to the instance's logger.
C5_DeliveredWithoutDebug ==
    \A level \in Levels :
        (opts.debug = None /\ requests = <<>> /\ ops = <<"getLogger." \o level>>) =>
            /\ Len(sink) = 1
            /\ [fn |-> sink[1].fn, args |-> sink[1].args] = ExpectedDelivery(opts, level, "test")

\* ------------------------------------------------------------ signal (C6)
\* C6: after construction fetchOptions.signal is the controller's signal, the
\* controller being the abortController option when given; and every fetch call,
\* of a first attempt or of a retry, is passed the controller's signal, whatever
\* signal fetchOptions holds by then.
C6_ControllerSignal ==
    /\ controller = OrElse(opts.abortController, NewController)
    /\ (ops = <<>> /\ requests = <<>>) => fetchOptions.signal = Some(controller)
    /\ \A c \in DOMAIN requests :
          requests[c].nFetch >= 1 => requests[c].fetchArgs.signal = Some(controller)

\* The fetch of a retry was issued with the caller's controller's signal although
\* setFetchOptions({signal, cache: "no-store"}), the one call made on the instance,
\* had stored another signal after the first attempt's fetch and before the
\* retry's, which was passed the cache mode.
C6_Witness ==
    \E c \in DOMAIN requests :
        /\ requests[c].attempt = 1
        /\ requests[c].nFetch = 2
        /\ requests[c].opsAtCall = 0
        /\ ops = <<"setFetchOptions">>
        /\ opts.abortController = Some("ctlUser")
        /\ fetchOptions.signal = Some("ctlOther")
        /\ requests[c].fetchArgs.cache = Some("no-store")
        /\ requests[c].fetchArgs.signal = Some("ctlUser")

\* ------------------------------------------------------------ options (C7)
\* The headers a fetch call sends for its init object.
SentHeaders(args) == NewHeaders(args.headers).hs

\* C7: with no method called on the instance, the first fetch of a request uses
\* the constructor's options: the method, body and headers given (defaults: GET,
\* no body, no headers), a retry count >= 1 given (default 1), the retry delay
\* given (default 0), and the instance holds the timeout given (default 5000).
C7_OptionsUsed ==
    \A c \in DOMAIN requests :
        LET r == requests[c] IN
        (ops = <<>> /\ r.nFetch >= 1) =>
            /\ opts.method # Some("") => r.fetchArgs.method = Some(OrElse(opts.method, "GET"))
            /\ r.fetchArgs.body = Some(OrElse(opts.body, NullBody))
            /\ SentHeaders(r.fetchArgs) = NewHeaders(opts.headers).hs
            /\ opts.retries = None => r.n = DefaultRetries
            /\ (opts.retries # None /\ Get(opts.retries) >= 1) => r.n = Get(opts.retries)
            /\ r.delay = OrElse(opts.retryTimeout, DefaultRetryTimeout)
            /\ timeout = OrElse(opts.timeout, DefaultTimeout)

\* ------------------------------------------------------------ bodies (C8, C9)
OnlyBodyCalls ==
    \A k \in DOMAIN ops : ops[k] \in {"appendToFormData", "setFormData", "setBody"}

\* C8: after appendToFormData, setFormData and setBody calls only, a request made
\* while formData is non-null passes fetch that FormData, with every entry it
\* holds, and its method is POST unless the method was PUT; and right after
\* setBody formData is null and the body is setBody's argument, not a FormData.
C8_FormDataIsPayload ==
    /\ \A c \in DOMAIN requests :
          LET r == requests[c] IN
          (r.nFetch >= 1 /\ Len(ops) = r.opsAtCall /\ OnlyBodyCalls /\ formData # None) =>
              /\ r.fetchArgs.body = Some(FdBody(Get(formData)))
              /\ r.fetchArgs.entries = fdStore[Get(formData)]
              /\ r.fetchArgs.method = Some(IF opts.method = Some("PUT") THEN "PUT" ELSE "POST")
    /\ (ops # <<>> /\ Last(ops) = "setBody") =>
          /\ formData = None
          /\ Get(fetchOptions.body).t # "fd"

\* C9: fch(url).setJsonBody({name: "Alice"}), with nothing else configured, is
\* sent as a POST with the JSON text as its body and Content-Type application/json.
C9_JsonBodyIsPost ==
    \A c \in DOMAIN requests :
        LET r == requests[c] IN
        (opts = NoOptions /\ ops = <<"setJsonBody">> /\ r.opsAtCall = 1 /\ r.nFetch >= 1) =>
            /\ r.fetchArgs.method = Some("POST")
            /\ r.fetchArgs.body = Some(StrBody("{\"name\":\"Alice\"}"))
            /\ HeadersGet(SentHeaders(r.fetchArgs), "Content-Type").value = Some("application/json")

====
